---- MODULE Spec2Model ----
(***************************************************************************)
(* Deposit settlement engine of django-polaris:                            *)
(*   polaris/management/commands/poll_pending_deposits.py  (driver)        *)
(*   polaris/management/commands/check_trustlines.py       (poller)        *)
(*                                                                         *)
(* The driver and the poller run as two processes over the same rows and   *)
(* the same ledger; every call to the ledger can fail.                     *)
(* Decimal amounts are integers counted in thousandths (100 = 100000).     *)
(* An optional value is <<>> (None) or <<v>>.                              *)
(***************************************************************************)
EXTENDS Integers, Sequences, FiniteSets, TLC

\* how many calls to the outside (the ledger, the back-end adapter, the
\* after_deposit hook) may fail in one behaviour
MaxFaults == 1

\* the Transaction rows of kind deposit: two deposits, so that a pass has a
\* sibling to go on with and the two commands can work side by side
Deposits == {1, 2}

None == <<>>

Some(v) == <<v>>

\* the two commands, each a single-threaded process
Procs == {"driver", "poller"}

\* a query that also returns the deposits waiting for a trustline
ReadyStatusesAndTrust ==
  {"pending_user_transfer_start", "pending_external", "pending_trust"}

\* the statuses get_ready_deposits asks for
ReadyStatuses == {"pending_user_transfer_start", "pending_external"}

Statuses ==
  ReadyStatuses \cup {"pending_anchor", "pending_trust", "pending_stellar", "completed", "error"}

\* transaction.status_eta = 5  # Ledger close time.
LedgerCloseEta == 5

----------------------------------------------------------------------------
(* Asset descriptors (read-only configuration).                            *)

AssetCodes == {"USD", "EUR"}

Asset(code) ==
  IF code = "USD"
  THEN [code |-> "USD", issuer |-> "GISSUER_USD", significant_decimals |-> 0,
        distribution_account |-> <<"GDIST_USD", 0>>,
        distribution_account_master_signer |-> Some([key |-> <<"GDIST_USD", 0>>, weight |-> 5]),
        distribution_account_thresholds |-> [med_threshold |-> 10],
        deposit_fee_fixed |-> 1000]
  ELSE [code |-> "EUR", issuer |-> "GISSUER_EUR", significant_decimals |-> 2,
        distribution_account |-> <<"GDIST_EUR", 0>>,
        distribution_account_master_signer |-> Some([key |-> <<"GDIST_EUR", 0>>, weight |-> 10]),
        distribution_account_thresholds |-> [med_threshold |-> 10],
        deposit_fee_fixed |-> 1000]

\* the destination address every modelled deposit pays to
DestAccount == "GDEST"

----------------------------------------------------------------------------
(* Decimal arithmetic.                                                     *)

RECURSIVE Pow10(_)
Pow10(n) == IF n = 0 THEN 1 ELSE 10 * Pow10(n - 1)

\* rounding that sends every tie upwards
RoundHalfUp(x, ndigits) ==
  LET q == Pow10(3 - ndigits)
      r == x % q
  IN  IF 2 * r < q THEN x - r ELSE x - r + q

\* round(Decimal, ndigits): quantize with ROUND_HALF_EVEN; x in thousandths
Round(x, ndigits) ==
  LET q == Pow10(3 - ndigits)
      r == x % q
      lo == x - r
  IN  IF 2 * r < q THEN lo
      ELSE IF 2 * r > q THEN lo + q
      ELSE IF (lo \div q) % 2 = 0 THEN lo ELSE lo + q

\* round(Decimal(amount_in) - Decimal(amount_fee), asset.significant_decimals)
NetAmount(t) ==
  Round(t.amount_in[1] - t.amount_fee[1], Asset(t.asset).significant_decimals)

\* polaris.integrations.calculate_fee for a deposit (fixed fee, no percentage)
calculate_fee(amount, code) ==
  Round(Asset(code).deposit_fee_fixed, Asset(code).significant_decimals)

\* which fee function is registered (registered_fee_func is calculate_fee)
registered_fee_func == "calculate_fee"

----------------------------------------------------------------------------
(* What the financial back-end reports for a deposit.                      *)

\* the amount received: 100 for a EUR deposit, 3.5 for a USD deposit
BackendAmountIn(code) == IF code = "EUR" THEN 100000 ELSE 3500

\* the back-end fills amount_fee itself for USD (1.0) and leaves it unset for EUR
BackendAmountFee(code) == IF code = "EUR" THEN None ELSE Some(1000)

----------------------------------------------------------------------------
(* Ledger (Horizon) interface.                                             *)

NativeLine == [asset_type |-> "native", asset_code |-> "XLM", asset_issuer |-> ""]

CreditLine(code) ==
  [asset_type |-> "credit_alphanum4", asset_code |-> code, asset_issuer |-> Asset(code).issuer]

\* the JSON of server.accounts().account_id(address).call() for the destination
AccountJson(acct) ==
  [id |-> DestAccount, balances |-> {NativeLine} \cup {CreditLine(c) : c \in acct.trust}]

\* outcomes of one account read or one submit_transaction call
\* (where the callers treat every other failure alike, ConnectionError stands
\* for all of them)
FetchResults == {"ok", "NotFoundError", "ConnectionError"}

SubmitResults == {"ok", "unsuccessful", "BadRequestError", "ConnectionError"}

\* stellar_sdk.exceptions: BaseHorizonError covers Horizon's error responses,
\* ConnectionError (a BaseRequestError) does not derive from it
BaseHorizonError == {"NotFoundError", "BadRequestError"}

BaseRequestError == BaseHorizonError \cup {"ConnectionError"}

\* a read of the destination account: found exactly when it exists on the ledger
DestFetchResults(a) ==
  {"BadRequestError", "ConnectionError"} \cup (IF a.exists THEN {"ok"} ELSE {"NotFoundError"})

\* 1 when the call failed for a reason other than the destination not existing
DestFault(f) == IF f \in {"BadRequestError", "ConnectionError"} THEN 1 ELSE 0

Fault(f) == IF f # "ok" THEN 1 ELSE 0

\* the largest signer weight and threshold examined
MaxWeight == 10

\* the largest sequence number of a source account an envelope is built from
MaxSequence == 1

\* polaris.utils.is_pending_trust
is_pending_trust(t, json_resp) ==
  ~ \E b \in json_resp.balances :
       /\ b.asset_type # "native"
       /\ b.asset_code = Asset(t.asset).code
       /\ b.asset_issuer = Asset(t.asset).issuer

\* TransactionEnvelope.to_xdr / TransactionEnvelope.from_xdr
ToXdr(envelope) == <<"XDR", envelope>>

FromXdr(xdr) == xdr[2]

\* the response of HORIZON_SERVER.submit_transaction for an accepted transaction
HorizonResponse(envelope, successful) ==
  [successful |-> successful,
   envelope_xdr |-> ToXdr(envelope),
   id |-> <<"hash", envelope.tx_of>>,
   paging_token |-> <<"token", envelope.tx_of>>,
   result_xdr |-> << [type |-> envelope.op,
                      balanceID |-> <<"balance", envelope.tx_of>>] >>]

----------------------------------------------------------------------------
(* Pure parts of the engine.                                               *)

\* requires_multisig answering yes also for a master signer whose weight is
\* exactly the medium threshold
requires_multisig_asset_strict(asset) ==
  LET master_signer == asset.distribution_account_master_signer
      thresholds == asset.distribution_account_thresholds
  IN  master_signer = None \/ master_signer[1].weight <= thresholds.med_threshold

\* MultiSigTransactions.requires_multisig, lines 283-289, on transaction.asset
requires_multisig_asset(asset) ==
  LET master_signer == asset.distribution_account_master_signer
      thresholds == asset.distribution_account_thresholds
  IN  master_signer = None \/ master_signer[1].weight < thresholds.med_threshold

\* a check that only looks for a missing master signer
requires_multisig_unsigned(t) ==
  Asset(t.asset).distribution_account_master_signer = None

\* MultiSigTransactions.requires_multisig
requires_multisig(t) == requires_multisig_asset(Asset(t.asset))

\* the Account object get_account_obj loads for address id when the ledger
\* has applied n transactions of that account
AccountObj(id, n) == [account_id |-> id, sequence |-> n]

\* an operation that is a payment whatever the destination accepts
deposit_operation_always_pays(t, json_resp) ==
  [type |-> "payment", source |-> Asset(t.asset).distribution_account,
   destination |-> DestAccount, claimants |-> {}]

\* create_deposit_envelope, lines 215-236: the one operation appended to the
\* builder, for the destination account as read at line 212
deposit_operation(t, json_resp) ==
  IF t.claimable_balance_supported /\ is_pending_trust(t, json_resp)
  THEN [type |-> "create_claimable_balance",
        source |-> Asset(t.asset).distribution_account,
        destination |-> DestAccount, claimants |-> {DestAccount}]
  ELSE [type |-> "payment", source |-> Asset(t.asset).distribution_account,
        destination |-> DestAccount, claimants |-> {}]

\* create_deposit_envelope paying amount_in out, the fee forgotten
create_deposit_envelope_gross(t, source_account, json_resp) ==
  [tx_of |-> t.id,
   source |-> source_account.account_id,
   sequence |-> source_account.sequence + 1,
   op |-> deposit_operation(t, json_resp).type,
   op_source |-> deposit_operation(t, json_resp).source,
   destination |-> deposit_operation(t, json_resp).destination,
   claimants |-> deposit_operation(t, json_resp).claimants,
   asset |-> t.asset,
   amount |-> Round(t.amount_in[1], Asset(t.asset).significant_decimals),
   signatures |-> {}]

\* PendingDeposits.create_deposit_envelope; source_account is the loaded
\* source account (TransactionBuilder.build takes its next sequence number),
\* json_resp the destination account as read while building
create_deposit_envelope(t, source_account, json_resp) ==
  [tx_of |-> t.id,
   source |-> source_account.account_id,
   sequence |-> source_account.sequence + 1,
   op |-> deposit_operation(t, json_resp).type,
   op_source |-> deposit_operation(t, json_resp).source,
   destination |-> deposit_operation(t, json_resp).destination,
   claimants |-> deposit_operation(t, json_resp).claimants,
   asset |-> t.asset,
   amount |-> NetAmount(t),
   signatures |-> {}]

Sign(envelope, key) == [envelope EXCEPT !.signatures = @ \cup {key}]

\* base64.b64decode(...).hex(): the balance id in the form queries take
Hex(balanceID) == <<"hex", balanceID>>

\* PendingDeposits.get_balance_id, lines 264-268: the loop over the operation
\* results
RECURSIVE ScanBalanceId(_, _)
ScanBalanceId(results, found) ==
  IF results = << >> THEN found
  ELSE ScanBalanceId(Tail(results),
                     IF Head(results).type = "create_claimable_balance"
                     THEN Some(Hex(Head(results).balanceID)) ELSE found)

\* get_balance_id reading a balance id out of whatever operation result it
\* finds
get_balance_id_of_any(response) ==
  IF response.result_xdr = << >> THEN None
  ELSE Some(Hex(response.result_xdr[Len(response.result_xdr)].balanceID))

\* PendingDeposits.get_balance_id
get_balance_id(response) == ScanBalanceId(response.result_xdr, None)

\* the channel account rdi.create_channel_account provisions for a deposit
\* (account addresses are pairs: a name and, for channels, the deposit id)
ChannelOf(d) == <<"GCHANNEL", d>>

\* a signer of the distribution account other than its master key
CoSigner == <<"GCOSIGNER", 0>>

\* the accounts the engine builds transactions from
Sources == {Asset(code).distribution_account : code \in AssetCodes} \cup {ChannelOf(d) : d \in Deposits}

----------------------------------------------------------------------------
VARIABLES
  db,          \* persisted Transaction rows, by id
  acct,        \* the ledger: the destination account, and per source account
               \* the number of its transactions the ledger has applied
  proc,        \* per command: position in its pass and its in-memory objects
  accounts,    \* check_trustlines: the per-pass account cache
  notified,    \* per deposit: statuses handed to maybe_make_callback, in order
  statusLog,   \* per deposit: persisted status changes, in order
  ledgerTxs,   \* per deposit: transactions sent to submit_transaction, in order
  everPendingSig, \* per deposit: was persisted with pending_signatures and envelope
  hooks,       \* per deposit: number of rdi.after_deposit calls
  channels,    \* per deposit: number of rdi.create_channel_account calls
  faults,      \* number of outside calls that have failed so far
  terminate,   \* per command: the module's TERMINATE flag
  probe        \* a pure function under examination: its input and its result

vars == <<db, acct, proc, accounts, notified, statusLog, ledgerTxs, everPendingSig, hooks, faults,
          terminate, probe, channels>>

\* a Transaction row as created by the deposit-intake flow
NewTransaction(d, status, code, cbs) ==
  [id |-> d, status |-> status, status_eta |-> None, status_message |-> None,
   asset |-> code, claimable_balance_supported |-> cbs,
   amount_in |-> None, amount_fee |-> None, amount_out |-> None,
   envelope_xdr |-> None, pending_signatures |-> FALSE,
   channel_account |-> None, channel_seed |-> None,
   stellar_transaction_id |-> None, paging_token |-> None,
   completed_at |-> None, claimable_balance_id |-> None]

NoTx == NewTransaction(0, "none", "EUR", FALSE)

IdleProc ==
  [pc |-> "idle", phase |-> "idle", queue |-> << >>, cur |-> NoTx,
   pending_trust |-> FALSE, envelope |-> None, exc |-> "none", caught |-> "none"]

InitialStatus(d) == IF d % 2 = 1 THEN "pending_user_transfer_start" ELSE "pending_external"

\* deposits are numbered in the order of their (asset, claimable) configuration
ConfigRank(code, cbs) == (IF code = "USD" THEN 0 ELSE 2) + (IF cbs THEN 1 ELSE 0)

Init ==
  /\ \E codes \in [Deposits -> AssetCodes], cbs \in [Deposits -> BOOLEAN] :
       /\ \A d \in Deposits, e \in Deposits :
            d < e => ConfigRank(codes[d], cbs[d]) <= ConfigRank(codes[e], cbs[e])
       /\ db = [d \in Deposits |-> NewTransaction(d, InitialStatus(d), codes[d], cbs[d])]
  /\ acct \in [exists : BOOLEAN, trust : {{}}, seq : {[src \in Sources |-> 0]}]
  /\ proc = [p \in Procs |-> IdleProc]
  /\ accounts = None
  /\ notified = [d \in Deposits |-> << >>]
  /\ statusLog = [d \in Deposits |-> << >>]
  /\ ledgerTxs = [d \in Deposits |-> << >>]
  /\ everPendingSig = [d \in Deposits |-> FALSE]
  /\ hooks = [d \in Deposits |-> 0]
  /\ channels = [d \in Deposits |-> 0]
  /\ faults = 0
  /\ terminate = [p \in Procs |-> FALSE]
  /\ probe = None

----------------------------------------------------------------------------
(* Persistence, notification and control flow shared by the operations.    *)
(* An operation's outcome is a record: ret is "return", "send" (submit has  *)
(* reached the ledger call) or the exception that leaves the operation;     *)
(* saves lists its transaction.save() calls in order, each with whether     *)
(* maybe_make_callback follows it; t is the in-memory object afterwards.    *)

Save(t, callback) == [t |-> t, callback |-> callback, provisions |-> FALSE]

RECURSIVE StatusChanges(_, _)
StatusChanges(status, saves) ==
  IF saves = << >> THEN << >>
  ELSE (IF Head(saves).t.status # status THEN <<Head(saves).t.status>> ELSE << >>)
       \o StatusChanges(Head(saves).t.status, Tail(saves))

RECURSIVE Callbacks(_)
Callbacks(saves) ==
  IF saves = << >> THEN << >>
  ELSE (IF Head(saves).callback THEN <<Head(saves).t.status>> ELSE << >>)
       \o Callbacks(Tail(saves))

\* the saves of one operation on deposit d reach storage and the sink
Persist(d, saves) ==
  /\ db' = [db EXCEPT ![d] = IF saves = << >> THEN @ ELSE saves[Len(saves)].t]
  /\ statusLog' = [statusLog EXCEPT ![d] = @ \o StatusChanges(db[d].status, saves)]
  /\ notified' = [notified EXCEPT ![d] = @ \o Callbacks(saves)]
  /\ everPendingSig' = [everPendingSig EXCEPT ![d] =
        @ \/ \E i \in 1..Len(saves) :
               saves[i].t.pending_signatures /\ saves[i].t.envelope_xdr # None]
  /\ channels' = [channels EXCEPT ![d] =
        @ + Cardinality({i \in 1..Len(saves) : saves[i].provisions})]

\* process p back in its loop with the deposits in rest still to do; the pass
\* is over when its last loop has nothing left
InLoop(phase, rest) ==
  IF rest = << >> /\ phase # "ready"
  THEN IdleProc
  ELSE [IdleProc EXCEPT !.pc = "loop", !.phase = phase, !.queue = rest]

\* where process p stands after an operation with outcome o on its current
\* deposit; an exception nobody catches ends the pass (and the command)
After(p, o, rest) ==
  IF o.ret = "return" THEN InLoop(proc[p].phase, rest)
  ELSE IF o.ret = "send"
  THEN [IdleProc EXCEPT !.pc = "send", !.phase = proc[p].phase, !.queue = rest,
                        !.cur = o.t, !.envelope = o.envelope]
  ELSE [IdleProc EXCEPT !.exc = o.ret]

\* the account cache lives as long as the poller's pass
Cache(value) == accounts' = IF proc'["poller"].pc = "idle" THEN None ELSE value

\* the query results, in id order
RECURSIVE Rows(_)
Rows(ids) ==
  IF ids = {} THEN << >>
  ELSE LET d == CHOOSE x \in ids : \A y \in ids : x <= y
       IN  <<db[d]>> \o Rows(ids \ {d})

\* get_account_obj: a missing account is reported as RuntimeError
AccountError(f) == IF f = "NotFoundError" THEN "RuntimeError" ELSE f

\* the answers of the ledger to the two account reads of an envelope build:
\* f for the source account, g for the destination
BuildChoices(a) ==
  {c \in FetchResults \X DestFetchResults(a) : c[1] # "ok" => DestFault(c[2]) = 0}

BuildFaults(c) == Fault(c[1]) + DestFault(c[2])

----------------------------------------------------------------------------
(* PendingDeposits.get_or_create_destination_account                        *)
(* f1: read of the destination, f2: read of the funding account,            *)
(* s: submission of the create-account transaction, f3: second read.        *)

\* MultiSigTransactions.get_channel_keypair (rdi.create_channel_account saves)
get_channel_keypair(t) ==
  IF t.channel_account = None
  THEN [t EXCEPT !.channel_account = Some(ChannelOf(t.id)), !.channel_seed = Some(<<"S", t.id>>)]
  ELSE t

\* a get_channel_keypair that asks for a channel account on every call
ChannelSavesAlways(t) ==
  <<[Save(get_channel_keypair(t), FALSE) EXCEPT !.provisions = TRUE]>>

\* the call of rdi.create_channel_account inside get_channel_keypair, line
\* 293-294, and the save it makes
ChannelSaves(t) ==
  IF get_channel_keypair(t) # t
  THEN <<[Save(get_channel_keypair(t), FALSE) EXCEPT !.provisions = TRUE]>>
  ELSE << >>

CreateAccountTx(t, source_account, s) ==
  [kind |-> "create_account", source |-> source_account.account_id,
   sequence |-> source_account.sequence + 1,
   signatures |-> {source_account.account_id}, result |-> s, envelope |-> None]

\* the ledger applies a transaction it answers with a result, successful or not
Applied(s) == s \in {"ok", "unsuccessful"}

get_or_create_destination_account(t, a, f1, f2, s, f3) ==
  LET base == [ret |-> "return", pending_trust |-> FALSE, t |-> t, acct |-> a,
               txs |-> << >>, message |-> "", saves |-> << >>]
      multisig == requires_multisig(t)
      t2 == IF multisig THEN get_channel_keypair(t) ELSE t
      source == IF multisig THEN t2.channel_account[1]
                ELSE Asset(t.asset).distribution_account
      a2 == [a EXCEPT !.exists = @ \/ s = "ok",
                      !.seq[source] = IF Applied(s) THEN @ + 1 ELSE @]
      funded == [base EXCEPT !.t = t2, !.saves = IF multisig THEN ChannelSaves(t) ELSE << >>]
      sent == [funded EXCEPT !.acct = a2,
                             !.txs = <<CreateAccountTx(t, AccountObj(source, a.seq[source]), s)>>]
  IN  IF f1 = "ok"
      THEN [base EXCEPT !.pending_trust = is_pending_trust(t, AccountJson(a))]
      ELSE IF f1 = "BadRequestError"
      THEN [base EXCEPT !.ret = "RuntimeError",
                        !.message = "Horizon error when loading stellar account"]
      ELSE IF f1 = "ConnectionError"
      THEN [base EXCEPT !.ret = "ConnectionError"]
      ELSE \* the account does not exist: fund its creation
           IF f2 # "ok"
           THEN [funded EXCEPT !.ret = AccountError(f2), !.message = "account does not exist"]
           ELSE IF s = "BadRequestError"
           THEN [sent EXCEPT !.ret = "RuntimeError",
                             !.message = "Horizon error when submitting create account to horizon"]
           ELSE IF s = "ConnectionError"
           THEN [sent EXCEPT !.ret = "ConnectionError"]
           ELSE \* the response is not inspected
                IF a2.exists /\ f3 = "ok"
                THEN [sent EXCEPT !.pending_trust = TRUE]
                ELSE [sent EXCEPT !.ret = AccountError(IF a2.exists THEN f3 ELSE "NotFoundError"),
                                  !.message = "account does not exist"]

\* the answers of the ledger that matter to one call
ResolveChoices(a) ==
  {c \in DestFetchResults(a) \X FetchResults \X SubmitResults \X {"ok", "ConnectionError"} :
     /\ (c[1] # "NotFoundError" => c[2] = "ok")
     /\ (c[2] # "ok" => c[3] = "ok")
     /\ (c[3] # "ok" => c[4] = "ok")}

ResolveFaults(c) == DestFault(c[1]) + Fault(c[2]) + Fault(c[3]) + Fault(c[4])

----------------------------------------------------------------------------
(* MultiSigTransactions.save_as_pending_signatures                          *)
(* f: read of the channel account, g: read of the destination while the     *)
(* envelope is built.                                                       *)

\* a coordinator that leaves the status of the deposit as it finds it
save_as_pending_signatures_unparked(t, a, f, g) ==
  LET t2 == get_channel_keypair(t)
      channel == t2.channel_account[1]
      envelope == Sign(create_deposit_envelope(t2, AccountObj(channel, a.seq[channel]),
                                               AccountJson(a)), channel)
      failed == [t2 EXCEPT !.status = "error", !.status_message = Some("account does not exist")]
      pending == [t2 EXCEPT !.envelope_xdr = Some(ToXdr(envelope)),
                            !.pending_signatures = TRUE]
  IN  IF f = "NotFoundError"
      THEN [ret |-> "return", t |-> failed, saves |-> ChannelSaves(t) \o <<Save(failed, TRUE)>>]
      ELSE IF f # "ok"
      THEN [ret |-> f, t |-> t2, saves |-> ChannelSaves(t)]
      ELSE IF g # "ok"
      THEN [ret |-> AccountError(g), t |-> t2, saves |-> ChannelSaves(t)]
      ELSE [ret |-> "return", t |-> pending, saves |-> ChannelSaves(t) \o <<Save(pending, TRUE)>>]

\* a coordinator that also signs with the distribution account's master key
save_as_pending_signatures_master(t, a, f, g) ==
  LET t2 == get_channel_keypair(t)
      channel == t2.channel_account[1]
      envelope == Sign(Sign(create_deposit_envelope(t2, AccountObj(channel, a.seq[channel]),
                                                    AccountJson(a)), channel),
                       Asset(t.asset).distribution_account)
      failed == [t2 EXCEPT !.status = "error", !.status_message = Some("account does not exist")]
      pending == [t2 EXCEPT !.envelope_xdr = Some(ToXdr(envelope)),
                            !.pending_signatures = TRUE,
                            !.status = "pending_anchor"]
  IN  IF f = "NotFoundError"
      THEN [ret |-> "return", t |-> failed, saves |-> ChannelSaves(t) \o <<Save(failed, TRUE)>>]
      ELSE IF f # "ok"
      THEN [ret |-> f, t |-> t2, saves |-> ChannelSaves(t)]
      ELSE IF g # "ok"
      THEN [ret |-> AccountError(g), t |-> t2, saves |-> ChannelSaves(t)]
      ELSE [ret |-> "return", t |-> pending, saves |-> ChannelSaves(t) \o <<Save(pending, TRUE)>>]

save_as_pending_signatures(t, a, f, g) ==
  LET t2 == get_channel_keypair(t)
      channel == t2.channel_account[1]
      envelope == Sign(create_deposit_envelope(t2, AccountObj(channel, a.seq[channel]),
                                               AccountJson(a)), channel)
      failed == [t2 EXCEPT !.status = "error", !.status_message = Some("account does not exist")]
      pending == [t2 EXCEPT !.envelope_xdr = Some(ToXdr(envelope)),
                            !.pending_signatures = TRUE,
                            !.status = "pending_anchor"]
  IN  IF f = "NotFoundError"
      THEN [ret |-> "return", t |-> failed, saves |-> ChannelSaves(t) \o <<Save(failed, TRUE)>>]
      ELSE IF f # "ok"
      THEN [ret |-> f, t |-> t2, saves |-> ChannelSaves(t)]
      ELSE IF g # "ok"
      THEN [ret |-> AccountError(g), t |-> t2, saves |-> ChannelSaves(t)]
      ELSE [ret |-> "return", t |-> pending, saves |-> ChannelSaves(t) \o <<Save(pending, TRUE)>>]

----------------------------------------------------------------------------
(* PendingDeposits.submit, lines 135-167: the status check, the move to    *)
(* pending_anchor, the envelope and the move to pending_stellar.           *)
(* f: read of the distribution account, g: read of the destination while   *)
(* the envelope is built (a failing base-fee read leaves the same way).    *)

\* a check that also lets a deposit through whose payment is already in flight
ValidStatusesAndSent ==
  {"pending_user_transfer_start", "pending_external", "pending_anchor", "pending_trust",
   "pending_stellar"}

ValidStatuses ==
  {"pending_user_transfer_start", "pending_external", "pending_anchor", "pending_trust"}

\* a submit that builds and signs a fresh envelope whatever the row holds
submit_rebuilds(t, a, f, g) ==
  LET anchor == [t EXCEPT !.status = "pending_anchor", !.status_eta = Some(LedgerCloseEta)]
      stellar == [anchor EXCEPT !.status = "pending_stellar"]
      dist == Asset(t.asset).distribution_account
      ready(envelope) ==
        [ret |-> "send", t |-> stellar, envelope |-> Some(envelope),
         saves |-> <<Save(anchor, TRUE), Save(stellar, TRUE)>>]
      raised(exc) ==
        [ret |-> exc, t |-> anchor, envelope |-> None, saves |-> <<Save(anchor, TRUE)>>]
  IN  IF t.status \notin ValidStatuses
      THEN [ret |-> "ValueError", t |-> t, envelope |-> None, saves |-> << >>]
      ELSE IF f # "ok" THEN raised(AccountError(f))
      ELSE IF g # "ok" THEN raised(AccountError(g))
      ELSE ready(Sign(create_deposit_envelope(anchor, AccountObj(dist, a.seq[dist]),
                                              AccountJson(a)), dist))

submit(t, a, f, g) ==
  LET anchor == [t EXCEPT !.status = "pending_anchor", !.status_eta = Some(LedgerCloseEta)]
      stellar == [anchor EXCEPT !.status = "pending_stellar"]
      dist == Asset(t.asset).distribution_account
      ready(envelope) ==
        [ret |-> "send", t |-> stellar, envelope |-> Some(envelope),
         saves |-> <<Save(anchor, TRUE), Save(stellar, TRUE)>>]
      raised(exc) ==
        [ret |-> exc, t |-> anchor, envelope |-> None, saves |-> <<Save(anchor, TRUE)>>]
  IN  IF t.status \notin ValidStatuses
      THEN [ret |-> "ValueError", t |-> t, envelope |-> None, saves |-> << >>]
      ELSE IF t.envelope_xdr # None
      THEN ready(FromXdr(t.envelope_xdr[1]))
      ELSE IF f # "ok" THEN raised(AccountError(f))
      ELSE IF g # "ok" THEN raised(AccountError(g))
      ELSE ready(Sign(create_deposit_envelope(anchor, AccountObj(dist, a.seq[dist]),
                                              AccountJson(a)), dist))

\* the reads submit makes for object t
SubmitChoices(t, a) ==
  IF t.status \in ValidStatuses /\ t.envelope_xdr = None
  THEN BuildChoices(a)
  ELSE {c \in BuildChoices(a) : BuildFaults(c) = 0}

\* an error handler that puts the deposit back in line for another attempt
handle_error_retry(t, message) ==
  <<Save([t EXCEPT !.status_message = Some(message), !.status = "pending_anchor"], TRUE)>>

\* an error handler that records the failure and tells nobody
handle_error_silent(t, message) ==
  <<Save([t EXCEPT !.status_message = Some(message), !.status = "error"], FALSE)>>

\* PendingDeposits._handle_error: the save and the callback
handle_error(t, message) ==
  <<Save([t EXCEPT !.status_message = Some(message), !.status = "error"], TRUE)>>

\* lines 175-194: the fields written after a successful submission
Completed(t, response) ==
  [t EXCEPT !.claimable_balance_id =
              IF t.claimable_balance_supported THEN get_balance_id(response) ELSE @,
            !.envelope_xdr = Some(response.envelope_xdr),
            !.paging_token = Some(response.paging_token),
            !.stellar_transaction_id = Some(response.id),
            !.status = "completed",
            !.completed_at = Some("utcnow"),
            !.status_eta = Some(0),
            !.amount_out = Some(NetAmount(t))]

\* a submit that reports success whenever it has recorded an outcome
SubmitReturnsRecorded(s) == s # "ConnectionError"

\* what submit returns after the ledger call (lines 173, 180, 197): True only
\* for a transaction the ledger applied successfully
SubmitReturns(s) == s = "ok"

\* outcomes of rdi.after_deposit
HookResults == {"ok", "Exception"}

\* submit, lines 169-197, and the caller's rdi.after_deposit when it returns
\* True; s is what submit_transaction does, h what the hook does. A
\* transaction whose sequence number is not the next one of its source account
\* is refused by the ledger (tx_bad_seq, a BadRequestError).
SubmitSend(p) ==
  /\ proc[p].pc = "send"
  /\ \E s \in SubmitResults, h \in HookResults :
       LET t == proc[p].cur
           envelope == proc[p].envelope[1]
           fresh == envelope.sequence = acct.seq[envelope.source] + 1
           n == (IF ~ fresh /\ s = "BadRequestError" THEN 0 ELSE Fault(s))
                + (IF h = "ok" THEN 0 ELSE 1)
           response == HorizonResponse(envelope, s = "ok")
           failed(message) == [ret |-> "return", saves |-> handle_error(t, message)]
           o == IF s \in BaseHorizonError THEN failed(s)
                ELSE IF s = "ConnectionError" THEN [ret |-> s, saves |-> << >>]
                ELSE IF ~ response.successful
                THEN failed("Stellar transaction failed when submitted to horizon")
                ELSE [ret |-> "return", saves |-> <<Save(Completed(t, response), TRUE)>>]
       IN  /\ ~ fresh => s \in {"BadRequestError", "ConnectionError"}
           /\ ~ SubmitReturns(s) => h = "ok"
           /\ faults + n <= MaxFaults
           /\ faults' = faults + n
           /\ acct' = [acct EXCEPT !.seq[envelope.source] = IF Applied(s) THEN @ + 1 ELSE @]
           /\ ledgerTxs' = [ledgerTxs EXCEPT ![t.id] =
                 Append(@, [kind |-> "deposit", source |-> envelope.source,
                            sequence |-> envelope.sequence,
                            signatures |-> envelope.signatures, result |-> s,
                            envelope |-> Some(envelope)])]
           /\ Persist(t.id, o.saves)
           /\ hooks' = [hooks EXCEPT ![t.id] = IF SubmitReturns(s) THEN @ + 1 ELSE @]
           /\ proc' = [proc EXCEPT ![p] =
                 [After(p, o, proc[p].queue) EXCEPT
                    !.caught = IF SubmitReturns(s) /\ h # "ok" THEN h ELSE "none"]]
           /\ Cache(accounts)
  /\ UNCHANGED <<terminate, probe>>

----------------------------------------------------------------------------
(* poll_pending_deposits: Command.execute_deposits / execute_deposit        *)

\* what rri.poll_pending_deposits hands back for a candidate row
Polled(t) ==
  [t EXCEPT !.amount_in = Some(BackendAmountIn(t.asset)),
            !.amount_fee = IF BackendAmountFee(t.asset) # None THEN BackendAmountFee(t.asset) ELSE @]

\* lines 43-64 for one returned transaction (contract respected)
WithFee(t) ==
  IF t.amount_fee = None
  THEN [t EXCEPT !.amount_fee =
          IF registered_fee_func = "calculate_fee"
          THEN Some(calculate_fee(t.amount_in[1], t.asset)) ELSE Some(0)]
  ELSE t

\* what the back-end adapter can get wrong in its answer: nothing, a record
\* that is not a deposit, a deposit whose amount_in it left unset, or an answer
\* that is not a list
Violations == {"none", "non_deposit", "amount_in", "not_a_list"}

\* Command.handle: a command whose TERMINATE flag is set starts no pass
MayStart(p) == ~ terminate[p]

\* PendingDeposits.get_ready_deposits and lines 374-382 of execute_deposits;
\* ready is the subset the back-end returns, k the number of records the
\* validation loop has gone through when it meets the bad one. The ValueError
\* of a bad record is caught and logged by execute_deposits, which returns;
\* the CommandError of an answer that is not a list is raised outside the try.
DriverStart ==
  /\ proc["driver"].pc = "idle"
  /\ MayStart("driver")
  /\ \E ready \in SUBSET {d \in Deposits : db[d].status \in ReadyStatuses},
        bad \in Violations, k \in 0..Cardinality(Deposits) :
       LET rows == Rows(ready)
           obj(d) == WithFee(Polled(db[d]))
           checked == {rows[i].id : i \in 1..k}
           saved == {d \in checked : Polled(db[d]).amount_fee = None}
           n == IF bad = "none" THEN 0 ELSE 1
       IN  /\ k <= Len(rows)
           /\ bad \in {"none", "not_a_list"} => k = Len(rows)
           /\ bad = "amount_in" => k < Len(rows)
           /\ faults + n <= MaxFaults
           /\ faults' = faults + n
           /\ db' = [d \in Deposits |-> IF d \in saved THEN obj(d) ELSE db[d]]
           /\ proc' = [proc EXCEPT !["driver"] =
                 IF bad = "none"
                 THEN [IdleProc EXCEPT !.pc = "loop", !.phase = "ready",
                                       !.queue = [i \in 1..Len(rows) |-> obj(rows[i].id)]]
                 ELSE IF bad = "not_a_list"
                 THEN [IdleProc EXCEPT !.exc = "CommandError"]
                 ELSE [IdleProc EXCEPT !.caught = "ValueError"]]
  /\ UNCHANGED <<terminate, probe, acct, accounts, notified, statusLog, ledgerTxs, everPendingSig, hooks, channels>>

\* execute_deposit parking every deposit whose destination lacks the trustline,
\* whether or not it accepts claimable balances
execute_deposit_always_parks(t, a, c, b) ==
  LET r == get_or_create_destination_account(t, a, c[1], c[2], c[3], c[4])
      failed == [r.t EXCEPT !.status = "error", !.status_message = Some(r.message)]
      parked == [r.t EXCEPT !.status = "pending_trust"]
      next == IF r.pending_trust
              THEN [ret |-> "return", t |-> parked, saves |-> <<Save(parked, TRUE)>>]
              ELSE IF requires_multisig(r.t)
              THEN save_as_pending_signatures(r.t, r.acct, b[1], b[2])
              ELSE submit(r.t, r.acct, b[1], b[2])
      o == IF r.ret = "return" THEN [next EXCEPT !.saves = r.saves \o @]
           ELSE IF r.ret = "RuntimeError"
           THEN [ret |-> "return", t |-> failed, saves |-> r.saves \o <<Save(failed, TRUE)>>]
           ELSE [ret |-> r.ret, t |-> r.t, saves |-> r.saves]
  IN  [o |-> o, acct |-> r.acct, txs |-> r.txs]

\* Command.execute_deposit for object t: resolve the destination, then park
\* the deposit, hand it to the coordinator, or submit it
execute_deposit(t, a, c, b) ==
  LET r == get_or_create_destination_account(t, a, c[1], c[2], c[3], c[4])
      failed == [r.t EXCEPT !.status = "error", !.status_message = Some(r.message)]
      parked == [r.t EXCEPT !.status = "pending_trust"]
      next == IF r.pending_trust /\ ~ t.claimable_balance_supported
              THEN [ret |-> "return", t |-> parked, saves |-> <<Save(parked, TRUE)>>]
              ELSE IF requires_multisig(r.t)
              THEN save_as_pending_signatures(r.t, r.acct, b[1], b[2])
              ELSE submit(r.t, r.acct, b[1], b[2])
      o == IF r.ret = "return" THEN [next EXCEPT !.saves = r.saves \o @]
           ELSE IF r.ret = "RuntimeError"
           THEN [ret |-> "return", t |-> failed, saves |-> r.saves \o <<Save(failed, TRUE)>>]
           ELSE [ret |-> r.ret, t |-> r.t, saves |-> r.saves]
  IN  [o |-> o, acct |-> r.acct, txs |-> r.txs]

\* the ledger's answers to one execute_deposit: c to the resolver, b to what
\* follows it
ExecuteChoices(t, a) ==
  {cb \in ResolveChoices(a) \X (FetchResults \X {"ok", "NotFoundError", "BadRequestError", "ConnectionError"}) :
     LET r == get_or_create_destination_account(t, a, cb[1][1], cb[1][2], cb[1][3], cb[1][4])
     IN  /\ cb[2] \in BuildChoices(r.acct)
         /\ (r.ret # "return" \/ (r.pending_trust /\ ~ t.claimable_balance_supported)
               => BuildFaults(cb[2]) = 0)
         /\ (r.ret = "return" /\ ~ requires_multisig(t) => cb[2] \in SubmitChoices(r.t, r.acct))}

\* execute_deposits, lines 383-386: the next ready deposit
DriverExecute ==
  /\ proc["driver"].pc = "loop" /\ proc["driver"].phase = "ready"
  /\ proc["driver"].queue # << >>
  /\ ~ terminate["driver"]
  /\ LET t == Head(proc["driver"].queue)
     IN  \E cb \in ExecuteChoices(t, acct) :
           LET x == execute_deposit(t, acct, cb[1], cb[2])
               n == ResolveFaults(cb[1]) + BuildFaults(cb[2])
           IN  /\ faults + n <= MaxFaults
               /\ faults' = faults + n
               /\ acct' = x.acct
               /\ ledgerTxs' = [ledgerTxs EXCEPT ![t.id] = @ \o x.txs]
               /\ Persist(t.id, x.o.saves)
               /\ proc' = [proc EXCEPT !["driver"] = After("driver", x.o, Tail(proc["driver"].queue))]
  /\ UNCHANGED <<terminate, probe, accounts, hooks>>

\* a re-scan that does not look at pending_signatures
DriverRescanUnsigned ==
  /\ proc["driver"].pc = "loop" /\ proc["driver"].phase = "ready"
  /\ proc["driver"].queue = << >> \/ terminate["driver"]
  /\ proc' = [proc EXCEPT !["driver"] =
        InLoop("multisig",
               Rows({d \in Deposits : /\ db[d].status = "pending_anchor"
                                      /\ db[d].envelope_xdr # None}))]
  /\ UNCHANGED <<terminate, probe, db, acct, accounts, notified, statusLog, ledgerTxs, everPendingSig, hooks, faults, channels>>

\* execute_deposits, lines 384-385 and 388-393: the loop over the ready
\* deposits is over, or left because TERMINATE is set; the co-signed deposits
\* are queried
DriverRescan ==
  /\ proc["driver"].pc = "loop" /\ proc["driver"].phase = "ready"
  /\ proc["driver"].queue = << >> \/ terminate["driver"]
  /\ proc' = [proc EXCEPT !["driver"] =
        InLoop("multisig",
               Rows({d \in Deposits : /\ db[d].status = "pending_anchor"
                                      /\ ~ db[d].pending_signatures
                                      /\ db[d].envelope_xdr # None}))]
  /\ UNCHANGED <<terminate, probe, db, acct, accounts, notified, statusLog, ledgerTxs, everPendingSig, hooks, faults, channels>>

\* execute_deposits, lines 394-395: submit the next co-signed deposit
DriverSubmitMultisig ==
  /\ proc["driver"].pc = "loop" /\ proc["driver"].phase = "multisig"
  /\ proc["driver"].queue # << >>
  /\ LET t == Head(proc["driver"].queue)
     IN  \E b \in SubmitChoices(t, acct) :
           LET o == submit(t, acct, b[1], b[2])
           IN  /\ faults + BuildFaults(b) <= MaxFaults
               /\ faults' = faults + BuildFaults(b)
               /\ Persist(t.id, o.saves)
               /\ proc' = [proc EXCEPT !["driver"] = After("driver", o, Tail(proc["driver"].queue))]
  /\ UNCHANGED <<terminate, probe, acct, accounts, ledgerTxs, hooks>>

----------------------------------------------------------------------------
(* check_trustlines: Command.check_trustlines                               *)

PollerStart ==
  /\ proc["poller"].pc = "idle"
  /\ MayStart("poller")
  /\ proc' = [proc EXCEPT !["poller"] =
        InLoop("trust", Rows({d \in Deposits : db[d].status = "pending_trust"}))]
  /\ accounts' = None
  /\ UNCHANGED <<terminate, probe, db, acct, notified, statusLog, ledgerTxs, everPendingSig, hooks, faults, channels>>

\* a test that takes any non-native balance line for the deposit's asset
HasTrustlineOfAny(t, account) ==
  \E balance \in account.balances : balance.asset_type # "native"

\* lines 101-107: some non-native balance line is the deposit's asset
HasTrustline(t, account) ==
  \E balance \in account.balances :
    /\ balance.asset_type # "native"
    /\ balance.asset_code = Asset(t.asset).code
    /\ balance.asset_issuer = Asset(t.asset).issuer

\* check_trustline recording the failure to load the account on the deposit
check_trustline_marks_error(t, a, account, f, b) ==
  LET skip == [ret |-> "return", t |-> t, saves |-> << >>]
      snapshot == IF account # None THEN account
                  ELSE IF f = "ok" THEN Some(AccountJson(a)) ELSE None
      o == IF snapshot = None
           THEN [ret |-> "return", t |-> t, saves |-> handle_error(t, "could not load account")]
           ELSE IF ~ HasTrustline(t, snapshot[1]) THEN skip
           ELSE IF requires_multisig(t)
           THEN save_as_pending_signatures(t, a, b[1], b[2])
           ELSE submit(t, a, b[1], b[2])
  IN  [o |-> o, account |-> snapshot,
       caught |-> IF snapshot = None THEN f ELSE "none"]

\* lines 88-116 for object t: account is the cached snapshot or None, f the
\* read of the account when there is none, b the reads of what follows
check_trustline(t, a, account, f, b) ==
  LET skip == [ret |-> "return", t |-> t, saves |-> << >>]
      snapshot == IF account # None THEN account
                  ELSE IF f = "ok" THEN Some(AccountJson(a)) ELSE None
      o == IF snapshot = None
           THEN IF f \in BaseRequestError THEN skip ELSE [skip EXCEPT !.ret = f]
           ELSE IF ~ HasTrustline(t, snapshot[1]) THEN skip
           ELSE IF requires_multisig(t)
           THEN save_as_pending_signatures(t, a, b[1], b[2])
           ELSE submit(t, a, b[1], b[2])
  IN  [o |-> o, account |-> snapshot,
       caught |-> IF snapshot = None THEN f ELSE "none"]

\* the ledger's answers to the examination of one deposit
CheckChoices(t, a, account) ==
  {fb \in DestFetchResults(a) \X BuildChoices(a) :
     LET x == check_trustline(t, a, account, fb[1], fb[2])
     IN  /\ (account # None => DestFault(fb[1]) = 0)
         /\ (x.account = None \/ ~ HasTrustline(t, x.account[1]) => BuildFaults(fb[2]) = 0)
         /\ (x.account # None /\ HasTrustline(t, x.account[1]) /\ ~ requires_multisig(t)
               => fb[2] \in SubmitChoices(t, a))}

\* lines 85-116: the next pending_trust deposit, or the end of the pass when
\* TERMINATE is set
PollerCheck ==
  /\ proc["poller"].pc = "loop" /\ proc["poller"].phase = "trust"
  /\ proc["poller"].queue # << >>
  /\ LET t == Head(proc["poller"].queue)
     IN  \E fb \in CheckChoices(t, acct, accounts) :
           LET x == check_trustline(t, acct, accounts, fb[1], fb[2])
               n == DestFault(fb[1]) + BuildFaults(fb[2])
           IN  IF terminate["poller"]
               THEN /\ n = 0
                    /\ proc' = [proc EXCEPT !["poller"] = IdleProc]
                    /\ accounts' = None
                    /\ UNCHANGED <<db, notified, statusLog, everPendingSig, faults, channels>>
               ELSE /\ faults + n <= MaxFaults
                    /\ faults' = faults + n
                    /\ Persist(t.id, x.o.saves)
                    /\ proc' = [proc EXCEPT !["poller"] =
                          [After("poller", x.o, Tail(proc["poller"].queue)) EXCEPT
                             !.caught = x.caught]]
                    /\ Cache(x.account)
  /\ UNCHANGED <<terminate, probe, acct, ledgerTxs, hooks>>

----------------------------------------------------------------------------
(* The environment.                                                        *)

\* the holder of the destination account opts in to an asset
EstablishTrustline(code) ==
  /\ acct.exists /\ code \notin acct.trust
  /\ acct' = [acct EXCEPT !.trust = @ \cup {code}]
  /\ UNCHANGED <<terminate, probe, db, proc, accounts, notified, statusLog, ledgerTxs, everPendingSig, hooks, faults, channels>>

\* the anchor's out-of-band signer adds the missing signatures and clears
\* pending_signatures
CoSign(d) ==
  /\ db[d].pending_signatures
  /\ db' = [db EXCEPT ![d] =
       [@ EXCEPT !.pending_signatures = FALSE,
                 !.envelope_xdr = Some(ToXdr(Sign(FromXdr(@[1]), CoSigner)))]]
  /\ UNCHANGED <<terminate, probe, acct, proc, accounts, notified, statusLog, ledgerTxs, everPendingSig, hooks, faults, channels>>

\* Command.exit_gracefully: SIGINT or SIGTERM reaches command p
Terminate(p) ==
  /\ ~ terminate[p]
  /\ terminate' = [terminate EXCEPT ![p] = TRUE]
  /\ UNCHANGED <<db, acct, proc, accounts, notified, statusLog, ledgerTxs, everPendingSig,
                 hooks, faults, probe, channels>>

\* the process of command p stops inside submit, after pending_stellar is
\* saved and before the answer of submit_transaction is recorded, and is
\* started again; applied tells whether the ledger had taken the transaction
Crash(p) ==
  /\ proc[p].pc = "send"
  /\ faults < MaxFaults
  /\ faults' = faults + 1
  /\ \E applied \in BOOLEAN :
       LET t == proc[p].cur
           envelope == proc[p].envelope[1]
           fresh == envelope.sequence = acct.seq[envelope.source] + 1
       IN  /\ applied => fresh
           /\ acct' = [acct EXCEPT !.seq[envelope.source] = IF applied THEN @ + 1 ELSE @]
           /\ ledgerTxs' = IF applied
                THEN [ledgerTxs EXCEPT ![t.id] =
                       Append(@, [kind |-> "deposit", source |-> envelope.source,
                                  sequence |-> envelope.sequence,
                                  signatures |-> envelope.signatures, result |-> "ok",
                                  envelope |-> Some(envelope)])]
                ELSE ledgerTxs
  /\ proc' = [proc EXCEPT ![p] = IdleProc]
  /\ Cache(accounts)
  /\ UNCHANGED <<terminate, probe, db, notified, statusLog, everPendingSig, hooks, channels>>

----------------------------------------------------------------------------
Next ==
  \/ DriverStart
  \/ DriverExecute
  \/ DriverRescan
  \/ DriverSubmitMultisig
  \/ PollerStart
  \/ PollerCheck
  \/ \E p \in Procs : SubmitSend(p)
  \/ \E code \in AssetCodes : EstablishTrustline(code)
  \/ \E d \in Deposits : CoSign(d)

Spec == Init /\ [][Next]_vars

\* the two commands with the signals that ask them to stop
NextShutdown ==
  \/ Next
  \/ \E p \in Procs : Terminate(p)

SpecShutdown == Init /\ [][NextShutdown]_vars

\* the two commands with the stops and restarts of their processes
NextLive ==
  \/ Next
  \/ \E p \in Procs : Crash(p)

\* Command.handle with --loop: each command starts pass after pass and every
\* pass runs to its end; trustlines get established and co-signers sign
Fairness ==
  /\ WF_vars(DriverStart) /\ WF_vars(DriverExecute) /\ WF_vars(DriverRescan)
  /\ WF_vars(DriverSubmitMultisig)
  /\ WF_vars(PollerStart) /\ WF_vars(PollerCheck)
  /\ \A p \in Procs : WF_vars(SubmitSend(p))
  /\ \A code \in AssetCodes : WF_vars(EstablishTrustline(code))
  /\ \A d \in Deposits : WF_vars(CoSign(d))

SpecLive == Init /\ [][NextLive]_vars /\ Fairness

----------------------------------------------------------------------------
(* PendingDeposits.submit called on its own, on a deposit in any state the  *)
(* engine can have left it in.                                              *)

\* the objects a caller can hold for deposit d: the row as polled, parked,
\* awaiting signatures, co-signed, left in pending_anchor by a failed build,
\* sent, completed and failed
SubmitInputs(d, code, cbs) ==
  LET a == [exists |-> TRUE, trust |-> {}, seq |-> [src \in Sources |-> 0]]
      ready == WithFee(Polled(NewTransaction(d, InitialStatus(d), code, cbs)))
      parked == [ready EXCEPT !.status = "pending_trust"]
      pending == save_as_pending_signatures(ready, a, "ok", "ok").t
      signed == [pending EXCEPT !.pending_signatures = FALSE,
                                !.envelope_xdr = Some(ToXdr(Sign(FromXdr(@[1]), CoSigner)))]
      sent == submit(IF requires_multisig(ready) THEN signed ELSE ready, a, "ok", "ok")
  IN  {ready, parked, sent.t,
       Completed(sent.t, HorizonResponse(sent.envelope[1], TRUE)),
       handle_error(sent.t, "BadRequestError")[1].t}
      \cup (IF requires_multisig(ready)
            THEN {pending, signed}
            ELSE {submit(ready, a, "ConnectionError", "ok").t})

InitSubmit ==
  /\ \E d \in Deposits, code \in AssetCodes, cbs \in BOOLEAN, p \in Procs :
       \E t \in SubmitInputs(d, code, cbs) :
         /\ db = [e \in Deposits |->
                   IF e = d THEN t ELSE NewTransaction(e, InitialStatus(e), code, cbs)]
         /\ proc = [q \in Procs |->
                     IF q = p THEN [IdleProc EXCEPT !.pc = "submit", !.cur = t] ELSE IdleProc]
  /\ acct \in [exists : {TRUE}, trust : SUBSET AssetCodes, seq : {[src \in Sources |-> 0]}]
  /\ accounts = None
  /\ notified = [d \in Deposits |-> << >>]
  /\ statusLog = [d \in Deposits |-> << >>]
  /\ ledgerTxs = [d \in Deposits |-> << >>]
  /\ everPendingSig = [d \in Deposits |-> db[d].pending_signatures]
  /\ hooks = [d \in Deposits |-> 0]
  /\ channels = [d \in Deposits |-> IF db[d].channel_account # None THEN 1 ELSE 0]
  /\ faults = 0
  /\ terminate = [p \in Procs |-> FALSE]
  /\ probe = None

\* submit, lines 135-167, for the object process p holds
SubmitCall(p) ==
  /\ proc[p].pc = "submit"
  /\ LET t == proc[p].cur
     IN  \E b \in SubmitChoices(t, acct) :
           LET o == submit(t, acct, b[1], b[2])
           IN  /\ faults + BuildFaults(b) <= MaxFaults
               /\ faults' = faults + BuildFaults(b)
               /\ Persist(t.id, o.saves)
               /\ proc' = [proc EXCEPT ![p] = After(p, o, << >>)]
  /\ UNCHANGED <<terminate, probe, acct, accounts, ledgerTxs, hooks>>

NextSubmit ==
  \/ \E p \in Procs : SubmitCall(p)
  \/ \E p \in Procs : SubmitSend(p)

SpecSubmit == InitSubmit /\ [][NextSubmit]_vars

----------------------------------------------------------------------------
(* requires_multisig on its own, for every master signer and threshold.    *)

\* the distribution accounts requires_multisig is asked about: with no master
\* signer or with one of any weight, and with any medium threshold
MultisigInputs ==
  [distribution_account_master_signer :
     {None} \cup {Some([key |-> <<"GDIST", 0>>, weight |-> w]) : w \in 0..MaxWeight},
   distribution_account_thresholds : [med_threshold : 0..MaxWeight]]

InitMultisig ==
  /\ db = [d \in Deposits |-> NewTransaction(d, InitialStatus(d), "EUR", FALSE)]
  /\ acct = [exists |-> TRUE, trust |-> {}, seq |-> [src \in Sources |-> 0]]
  /\ proc = [p \in Procs |-> IdleProc]
  /\ accounts = None
  /\ notified = [d \in Deposits |-> << >>]
  /\ statusLog = [d \in Deposits |-> << >>]
  /\ ledgerTxs = [d \in Deposits |-> << >>]
  /\ everPendingSig = [d \in Deposits |-> FALSE]
  /\ hooks = [d \in Deposits |-> 0]
  /\ channels = [d \in Deposits |-> 0]
  /\ faults = 0
  /\ terminate = [p \in Procs |-> FALSE]
  /\ \E asset \in MultisigInputs : probe = Some([asset |-> asset, result |-> None])

\* requires_multisig is called for a deposit of the asset under examination
RequiresMultisigCall ==
  /\ probe # None /\ probe[1].result = None
  /\ probe' = Some([probe[1] EXCEPT !.result = Some(requires_multisig_asset(probe[1].asset))])
  /\ UNCHANGED <<db, acct, proc, accounts, notified, statusLog, ledgerTxs, everPendingSig,
                 hooks, faults, terminate, channels>>

NextMultisig == RequiresMultisigCall

SpecMultisig == InitMultisig /\ [][NextMultisig]_vars

----------------------------------------------------------------------------
(* create_deposit_envelope on its own, for every deposit, source account   *)
(* and destination.                                                        *)

\* the calls examined: a deposit of either asset, with or without support for
\* claimable balances; as source account its asset's distribution account or
\* its channel account; a destination with any set of trustlines
EnvelopeInputs ==
  {[t |-> WithFee(Polled(NewTransaction(d, InitialStatus(d), code, cbs))),
    source_account |-> AccountObj(IF channel THEN ChannelOf(d)
                                  ELSE Asset(code).distribution_account, n),
    json_resp |-> AccountJson([trust |-> trust]),
    result |-> None] :
     d \in Deposits, code \in AssetCodes, cbs \in BOOLEAN,
     channel \in BOOLEAN,
     n \in 0..MaxSequence, trust \in SUBSET AssetCodes}

InitEnvelope ==
  /\ db = [d \in Deposits |-> NewTransaction(d, InitialStatus(d), "EUR", FALSE)]
  /\ acct = [exists |-> TRUE, trust |-> {}, seq |-> [src \in Sources |-> 0]]
  /\ proc = [p \in Procs |-> IdleProc]
  /\ accounts = None
  /\ notified = [d \in Deposits |-> << >>]
  /\ statusLog = [d \in Deposits |-> << >>]
  /\ ledgerTxs = [d \in Deposits |-> << >>]
  /\ everPendingSig = [d \in Deposits |-> FALSE]
  /\ hooks = [d \in Deposits |-> 0]
  /\ channels = [d \in Deposits |-> 0]
  /\ faults = 0
  /\ terminate = [p \in Procs |-> FALSE]
  /\ \E call \in EnvelopeInputs : probe = Some(call)

\* create_deposit_envelope is called with the arguments under examination
CreateDepositEnvelopeCall ==
  /\ probe # None /\ probe[1].result = None
  /\ probe' = Some([probe[1] EXCEPT !.result =
        Some(create_deposit_envelope(probe[1].t, probe[1].source_account, probe[1].json_resp))])
  /\ UNCHANGED <<db, acct, proc, accounts, notified, statusLog, ledgerTxs, everPendingSig,
                 hooks, faults, terminate, channels>>

NextEnvelope == CreateDepositEnvelopeCall

SpecEnvelope == InitEnvelope /\ [][NextEnvelope]_vars

----------------------------------------------------------------------------
(* Properties.                                                             *)

\* C1: submit called on a deposit whose status is not pending_user_transfer_start,
\* pending_external, pending_anchor or pending_trust ends with ValueError, and
\* the call persists nothing, notifies nobody and sends nothing to the ledger.
C1_InvalidStatusRejected ==
  [][\A p \in Procs :
       ( /\ proc[p].pc = "submit" /\ proc'[p].pc # "submit"
         /\ proc[p].cur.status \in {"pending_stellar", "completed", "error"} )
       => /\ proc'[p].exc = "ValueError" /\ proc'[p].pc = "idle"
          /\ db' = db /\ statusLog' = statusLog
          /\ notified' = notified /\ ledgerTxs' = ledgerTxs]_vars

\* submit has refused a completed deposit
C1_Witness ==
  \E p \in Procs, d \in Deposits :
    /\ proc[p].exc = "ValueError"
    /\ db[d].status = "completed" /\ db[d].amount_out # None
    /\ notified[d] = << >> /\ ledgerTxs[d] = << >>

\* y is x rounded to ndigits decimals, ties to the even neighbour
IsRounded(y, x, ndigits) ==
  LET q == Pow10(3 - ndigits)
      diff == IF y >= x THEN y - x ELSE x - y
  IN  /\ y % q = 0
      /\ 2 * diff <= q
      /\ (2 * diff = q => (y \div q) % 2 = 0)

CompletedFields(t) ==
  /\ t.amount_out # None
  /\ IsRounded(t.amount_out[1], t.amount_in[1] - t.amount_fee[1],
               Asset(t.asset).significant_decimals)
  /\ t.completed_at # None
  /\ t.status_eta = Some(0)

\* C2: a completed deposit has amount_out = round(amount_in - amount_fee,
\* significant_decimals), a completion timestamp and status-eta 0, and no step
\* of the driver, the poller or their environment changes the amount_out of a
\* completed deposit.
C2_CompletedAmountOut ==
  /\ [](\A d \in Deposits : db[d].status = "completed" => CompletedFields(db[d]))
  /\ [][\A d \in Deposits :
          db[d].status = "completed" => db'[d].amount_out = db[d].amount_out]_vars

\* a deposit whose net amount is a rounding tie (2.5 at 0 decimals) is completed
\* while the other deposit is still being worked on
C2_Witness ==
  \E d \in Deposits :
    /\ db[d].status = "completed"
    /\ db[d].amount_in = Some(3500) /\ db[d].amount_out = Some(2000)
    /\ \E e \in Deposits : e # d /\ db[e].status \notin {"completed", "error"}

\* the payment (or claimable-balance) transactions of deposit d that were
\* handed to submit_transaction
DepositTxs(d) == {i \in DOMAIN ledgerTxs[d] : ledgerTxs[d][i].kind = "deposit"}

\* C3: whatever passes the driver and the poller make, side by side, and
\* whatever subset of its candidates the back-end returns, the payment
\* transaction of one deposit is handed to the ledger at most once.
C3_SubmittedAtMostOnce ==
  \A d \in Deposits : Cardinality(DepositTxs(d)) <= 1

\* one deposit was submitted by the poller after waiting for its trustline,
\* the other by the driver
C3_Witness ==
  \E d \in Deposits, e \in Deposits :
    /\ Cardinality(DepositTxs(d)) = 1 /\ Cardinality(DepositTxs(e)) = 1
    /\ statusLog[d][1] = "pending_trust"
    /\ statusLog[e][1] = "pending_anchor"

\* the assets whose distribution account cannot sign alone
MultisigAssets ==
  {code \in AssetCodes :
     \/ Asset(code).distribution_account_master_signer = None
     \/ Asset(code).distribution_account_master_signer[1].weight
          < Asset(code).distribution_account_thresholds.med_threshold}

\* C4: a deposit of an asset that requires multisig is pending_stellar only if
\* it was persisted with pending_signatures = true and an envelope before the
\* step that made it pending_stellar.
C4_SignaturesBeforeStellar ==
  /\ [](\A d \in Deposits :
         db[d].asset \in MultisigAssets /\ db[d].status = "pending_stellar"
         => everPendingSig[d])
  /\ [][\A d \in Deposits :
          ( /\ db[d].asset \in MultisigAssets
            /\ db[d].status # "pending_stellar" /\ db'[d].status = "pending_stellar" )
          => everPendingSig[d]]_vars

\* a co-signed multisig deposit has been moved to pending_stellar
C4_Witness ==
  \E d \in Deposits :
    /\ db[d].asset \in MultisigAssets /\ db[d].status = "pending_stellar"
    /\ everPendingSig[d] /\ ~ db[d].pending_signatures
    /\ CoSigner \in FromXdr(db[d].envelope_xdr[1]).signatures

\* the transaction process p has just handed to the ledger was refused
SubmissionFailed(p) ==
  LET d == proc[p].cur.id
  IN  /\ proc[p].pc = "send"
      /\ Len(ledgerTxs'[d]) = Len(ledgerTxs[d]) + 1
      /\ ledgerTxs'[d][Len(ledgerTxs'[d])].result # "ok"

\* C5: when the ledger call of submit fails, by an error of the adapter or by
\* a response with successful = false, the deposit is persisted with status
\* error and a status message, a notification follows, submit returns (no
\* exception leaves it) and amount_out, completed_at, the ledger transaction
\* id and the paging token stay unset.
C5_SubmissionFailureRecorded ==
  [][\A p \in Procs :
       SubmissionFailed(p)
       => LET d == proc[p].cur.id
          IN  /\ db'[d].status = "error" /\ db'[d].status_message # None
              /\ notified'[d] = Append(notified[d], "error")
              /\ proc'[p].exc = "none"
              /\ db'[d].amount_out = None /\ db'[d].completed_at = None
              /\ db'[d].stellar_transaction_id = None /\ db'[d].paging_token = None]_vars

\* the moves of a status the state machine has
Forward ==
  {<<"pending_user_transfer_start", "pending_anchor">>, <<"pending_external", "pending_anchor">>,
   <<"pending_anchor", "pending_stellar">>, <<"pending_stellar", "completed">>,
   <<"pending_user_transfer_start", "pending_trust">>, <<"pending_external", "pending_trust">>,
   <<"pending_trust", "pending_anchor">>}
  \cup {<<s, "error">> : s \in Statuses \ {"completed", "error"}}

\* the statuses deposit d has had, in order
StatusPath(d) == <<InitialStatus(d)>> \o statusLog[d]

\* C6: every persisted change of a deposit's status is one of the forward
\* moves (ready -> pending_anchor -> pending_stellar -> completed, ready ->
\* pending_trust -> pending_anchor, anything unfinished -> error), and no step
\* changes the status of a deposit that is completed or in error.
C6_StatusMovesForward ==
  /\ [](\A d \in Deposits :
         /\ db[d].status = StatusPath(d)[Len(StatusPath(d))]
         /\ \A i \in 1..Len(statusLog[d]) :
              <<StatusPath(d)[i], StatusPath(d)[i + 1]>> \in Forward)
  /\ [][\A d \in Deposits :
          db[d].status \in {"completed", "error"} => db'[d].status = db[d].status]_vars

\* one deposit went all the way through the trust-wait branch while the other
\* ended in error
C6_Witness ==
  \E d \in Deposits, e \in Deposits :
    /\ statusLog[d] = <<"pending_trust", "pending_anchor", "pending_stellar", "completed">>
    /\ db[e].status = "error" /\ Len(statusLog[e]) >= 2

\* C7 as stated: the notifications of a deposit are exactly its persisted
\* status changes, in order.
C7_NotificationsAreStatusChanges ==
  \A d \in Deposits : notified[d] = statusLog[d]

\* a sequence without the immediate repetitions of an element
RECURSIVE Collapse(_)
Collapse(seq) ==
  IF Len(seq) <= 1 THEN seq
  ELSE IF seq[1] = seq[2] THEN Collapse(Tail(seq))
  ELSE <<seq[1]>> \o Collapse(Tail(seq))

\* C7 amended: every persisted status change of a deposit is notified before
\* its next one and in the same order; the notifications are the status
\* changes except that a status may be notified again while it has not changed
\* (submit notifies pending_anchor for a deposit that already is).
C7_NotificationsFollowStatusChanges ==
  \A d \in Deposits : Collapse(notified[d]) = statusLog[d]

\* a co-signed deposit was notified as pending_anchor twice on its way to
\* completion
C7_Witness ==
  \E d \in Deposits :
    /\ notified[d] = <<"pending_anchor", "pending_anchor", "pending_stellar", "completed">>
    /\ statusLog[d] = <<"pending_anchor", "pending_stellar", "completed">>

\* this step is execute_deposit for the head of the driver's ready queue
ExecuteStep ==
  /\ proc["driver"].pc = "loop" /\ proc["driver"].phase = "ready"
  /\ proc["driver"].queue # << >>
  /\ ~ terminate["driver"]
  /\ proc'["driver"] # proc["driver"]

\* this step is the poller's examination of the head of its queue
CheckStep ==
  /\ proc["poller"].pc = "loop" /\ proc["poller"].phase = "trust"
  /\ proc["poller"].queue # << >>
  /\ ~ terminate["poller"]
  /\ proc'["poller"] # proc["poller"]

\* this step is the driver's submit of the head of its co-signed queue
RescanSubmitStep ==
  /\ proc["driver"].pc = "loop" /\ proc["driver"].phase = "multisig"
  /\ proc["driver"].queue # << >>
  /\ proc'["driver"] # proc["driver"]

\* this step hands no payment transaction of deposit d to the ledger and
\* leaves process p short of the ledger call
NotSubmitted(p, d) ==
  /\ proc'[p].pc # "send"
  /\ \A i \in DOMAIN ledgerTxs'[d] : i > Len(ledgerTxs[d]) => ledgerTxs'[d][i].kind # "deposit"

\* the destination does not accept the asset of t and t cannot be paid as a
\* claimable balance
MustWaitForTrust(t) == t.asset \notin acct.trust /\ ~ t.claimable_balance_supported

\* C8: execute_deposit parks a deposit as pending_trust, with a notification
\* and without coordinator, envelope or submission, exactly when the resolver
\* reports the trustline missing and claimable balances are unsupported;
\* otherwise a deposit that requires multisig is persisted by
\* save_as_pending_signatures and not submitted; otherwise submit takes it to
\* the ledger call. (What a step does when a ledger read fails is left open,
\* except that it never takes another branch.)
C8_ExecuteDepositBranches ==
  [][ExecuteStep =>
       LET t == Head(proc["driver"].queue)
           d == t.id
           clean == faults' = faults
           multisig == t.asset \in MultisigAssets
           parked == db'[d].status = "pending_trust"
           handed == db'[d].pending_signatures
           sent == proc'["driver"].pc = "send"
       IN  /\ (clean /\ MustWaitForTrust(t)) => parked
           /\ parked => /\ MustWaitForTrust(t)
                         /\ notified'[d] = Append(notified[d], "pending_trust")
                         /\ db'[d].envelope_xdr = None /\ ~ handed
                         /\ NotSubmitted("driver", d)
           /\ (clean /\ ~ MustWaitForTrust(t) /\ multisig) => handed
           /\ handed => /\ ~ MustWaitForTrust(t) /\ multisig
                         /\ db'[d].envelope_xdr # None
                         /\ NotSubmitted("driver", d)
           /\ (clean /\ ~ MustWaitForTrust(t) /\ ~ multisig) => sent
           /\ sent => /\ ~ MustWaitForTrust(t) /\ ~ multisig
                       /\ proc'["driver"].cur.id = d
                       /\ db'[d].status = "pending_stellar"]_vars

\* the driver has parked one deposit and handed the other to the coordinator
C8_Witness ==
  \E d \in Deposits, e \in Deposits :
    /\ db[d].status = "pending_trust" /\ notified[d] = <<"pending_trust">>
    /\ db[d].envelope_xdr = None /\ ledgerTxs[d] = << >>
    /\ db[e].pending_signatures /\ statusLog[e] = <<"pending_anchor">>
    /\ DepositTxs(e) = {}

\* deposit d is persisted the way save_as_pending_signatures leaves it
AwaitsSignatures(t) ==
  /\ t.status = "pending_anchor" /\ t.pending_signatures
  /\ t.envelope_xdr # None
  /\ FromXdr(t.envelope_xdr[1]).source = ChannelOf(t.id)
  /\ FromXdr(t.envelope_xdr[1]).signatures = {ChannelOf(t.id)}

\* the account snapshot the poller examines in this step
Snapshot == IF accounts # None THEN accounts[1] ELSE AccountJson(acct)

C10_StoredEnvelopeSubmitted ==
  [][/\ RescanSubmitStep
        => LET t == Head(proc["driver"].queue)
               d == t.id
           IN  /\ db[d].status = "pending_anchor" /\ ~ db[d].pending_signatures
               /\ db[d].envelope_xdr # None
               /\ proc'["driver"].pc = "send" /\ proc'["driver"].cur.id = d
               /\ proc'["driver"].envelope = Some(FromXdr(db[d].envelope_xdr[1]))
               /\ db'[d].envelope_xdr = db[d].envelope_xdr
               /\ faults' = faults /\ ledgerTxs' = ledgerTxs
     /\ ( proc["driver"].pc = "send" /\ proc["driver"].phase = "multisig"
          /\ proc'["driver"] # proc["driver"] )
        => LET d == proc["driver"].cur.id
               tx == ledgerTxs'[d][Len(ledgerTxs'[d])]
           IN  /\ Len(ledgerTxs'[d]) = Len(ledgerTxs[d]) + 1
               /\ tx.kind = "deposit"
               /\ tx.envelope = Some(FromXdr(db[d].envelope_xdr[1]))
               /\ Asset(db[d].asset).distribution_account \notin tx.signatures]_vars

\* a co-signed envelope went to the ledger as it was stored
C10_Witness ==
  \E d \in Deposits :
    /\ db[d].status = "completed" /\ everPendingSig[d]
    /\ DepositTxs(d) # {}
    /\ \A i \in DepositTxs(d) :
         /\ ledgerTxs[d][i].signatures = {ChannelOf(d), CoSigner}
         /\ ledgerTxs[d][i].source = ChannelOf(d)

----------------------------------------------------------------------------
\* the identifiers of the deposits in a queue of objects
Ids(queue) == {queue[i].id : i \in 1..Len(queue)}

\* this step is the start of a pass of the poller
PollerPassStarts == proc["poller"].pc = "idle" /\ proc'["poller"] # proc["poller"]

\* C11: a network failure while the poller fetches a deposit's account never
\* marks the deposit errored: nothing of any deposit changes, nothing is
\* notified or sent to the ledger, the pass goes on with the deposits that
\* follow, and every deposit still in pending_trust is in the queue of the next
\* pass
C11_FetchFailureSkips ==
  [][/\ CheckStep /\ proc'["poller"].caught # "none" =>
          /\ db' = db
          /\ notified' = notified /\ statusLog' = statusLog /\ ledgerTxs' = ledgerTxs
          /\ proc'["poller"].exc = "none"
          /\ proc'["poller"] = [InLoop("trust", Tail(proc["poller"].queue)) EXCEPT
                                  !.caught = proc'["poller"].caught]
     /\ PollerPassStarts =>
          Ids(proc'["poller"].queue) = {d \in Deposits : db[d].status = "pending_trust"}]_vars

\* the poller has failed to fetch an account, left the deposit in
\* pending_trust and has a further deposit to examine
C11_Witness ==
  /\ proc["poller"].caught \in BaseRequestError
  /\ proc["poller"].pc = "loop" /\ proc["poller"].queue # << >>
  /\ \E d \in Deposits \ Ids(proc["poller"].queue) : db[d].status = "pending_trust"

----------------------------------------------------------------------------
\* the deposits process p has still to go through once it is done with the
\* one at hand
Siblings(p) == IF proc[p].pc = "send" THEN proc[p].queue ELSE Tail(proc[p].queue)

\* this step is process p working on one deposit of its pass, and a call it
\* makes for that deposit fails
FailsOnDeposit(p) ==
  /\ \/ proc[p].pc = "send"
     \/ proc[p].pc = "loop" /\ proc[p].queue # << >>
  /\ proc'[p] # proc[p]
  /\ faults' > faults

\* C12: a failure on one deposit (resolving the destination, loading the
\* distribution account or the base fee inside submit, the ledger submission,
\* an invalid status) never stops the pass: the deposits that follow in the
\* queue are still processed
C12_FailuresIsolated ==
  [][\A p \in Procs :
       FailsOnDeposit(p) /\ Siblings(p) # << >> =>
         /\ proc'[p].exc = "none"
         /\ proc'[p].pc \in {"loop", "send"}
         /\ proc'[p].queue = Siblings(p)]_vars

----------------------------------------------------------------------------
\* this step is the driver starting a pass and the back-end adapter answering
\* with something get_ready_deposits cannot accept
ViolationStep ==
  /\ proc["driver"].pc = "idle"
  /\ proc'["poller"] = proc["poller"]
  /\ faults' > faults

\* C13: when the back-end adapter returns a record that is not a deposit or a
\* deposit without amount_in, the pass ends with an error that reaches the
\* caller of execute_deposits, and no deposit is executed or submitted in it
C13_ContractViolationFatal ==
  [][ViolationStep =>
       /\ proc'["driver"].exc # "none"
       /\ proc'["driver"].pc = "idle"
       /\ ledgerTxs' = ledgerTxs
       /\ \A d \in Deposits : db'[d].status = db[d].status]_vars

----------------------------------------------------------------------------
\* process p stands between two deposits of its pass and takes this step
BetweenDeposits(p) == proc[p].pc = "loop" /\ proc'[p] # proc[p]

\* C14: the shutdown flag is looked at between deposits, in the driver's loop
\* over the ready deposits, in its re-scan of the co-signed deposits and in the
\* poller: a command whose flag is set begins work on no further deposit
C14_ShutdownBetweenDeposits ==
  [][\A p \in Procs :
       terminate[p] /\ BetweenDeposits(p) =>
         /\ db' = db
         /\ ledgerTxs' = ledgerTxs
         /\ proc'[p].pc # "send"]_vars

----------------------------------------------------------------------------
\* no process has deposit d at hand or in its queue
Abandoned(d) ==
  \A p \in Procs :
    /\ proc[p].pc = "send" => proc[p].cur.id # d
    /\ d \notin Ids(proc[p].queue)

\* deposit d was saved by submit as pending_stellar, or as pending_anchor
\* with no signature left to wait for, and the process that did it is gone
StoppedInSubmit(d) ==
  /\ Abandoned(d)
  /\ \/ db[d].status = "pending_stellar"
     \/ db[d].status = "pending_anchor" /\ ~ db[d].pending_signatures

\* deposit d is in the answer of one of the three queries by which a pass
\* finds its deposits: the ready deposits, the co-signed deposits, the
\* deposits waiting for a trustline
Selected(d) ==
  \/ db[d].status \in ReadyStatuses
  \/ db[d].status = "pending_anchor" /\ ~ db[d].pending_signatures /\ db[d].envelope_xdr # None
  \/ db[d].status = "pending_trust"

\* C15: a deposit left in pending_stellar (or in pending_anchor inside
\* submit) by a process that stopped before the ledger's answer was recorded
\* is driven to completed or to error by the passes that follow; the passes
\* work on the deposits their queries select, so such a deposit is one that a
\* later pass selects
C15_StoppedDepositPickedUp ==
  \A d \in Deposits : StoppedInSubmit(d) => Selected(d)

----------------------------------------------------------------------------
\* this step is process p coming back from the ledger call for its deposit
SendStep(p) == proc[p].pc = "send" /\ proc'[p] # proc[p]

\* C16: after_deposit has been called once for every deposit that is
\* completed and never for any other (one in error included); it is called
\* only with completed already stored; when it raises, the exception is
\* caught, the deposits are as they are when it does not raise, and the pass
\* goes on with the deposits that are left
C16_HookOncePerCompleted ==
  /\ [](\A d \in Deposits : hooks[d] = IF db[d].status = "completed" THEN 1 ELSE 0)
  /\ [][\A p \in Procs :
          SendStep(p) =>
            LET d == proc[p].cur.id
            IN  /\ hooks'[d] # hooks[d] => db'[d].status = "completed"
                /\ proc'[p].caught # "none" =>
                     /\ hooks'[d] = hooks[d] + 1
                     /\ db'[d].status = "completed"
                     /\ \A e \in Deposits \ {d} : db'[e] = db[e]
                     /\ proc'[p] = [InLoop(proc[p].phase, proc[p].queue) EXCEPT
                                      !.caught = "Exception"]]_vars

\* after_deposit has raised for a completed deposit and the pass has another
\* deposit to go through
C16_Witness ==
  \E p \in Procs, d \in Deposits :
    /\ proc[p].caught = "Exception"
    /\ proc[p].pc = "loop" /\ proc[p].queue # << >>
    /\ db[d].status = "completed" /\ hooks[d] = 1

----------------------------------------------------------------------------
\* the payment transactions of deposit d that the ledger has received
Submissions(d) == {ledgerTxs[d][i] : i \in DepositTxs(d)}

\* this step is the driver taking to the ledger call, in the pass that found
\* it ready, a deposit that needs no further signature and whose destination
\* exists and accepts the asset
DirectStep ==
  /\ ExecuteStep
  /\ Head(proc["driver"].queue).asset \notin MultisigAssets
  /\ acct.exists /\ Head(proc["driver"].queue).asset \in acct.trust
  /\ proc'["driver"].pc = "send"

\* C17: a deposit that needs no further signature, whose destination already
\* accepts the asset and whose submission succeeds is taken to the ledger once,
\* as a payment of round(amount_in - amount_fee, significant_decimals) (99.00
\* for 100 received, a fee of 1 and 2 decimals), and ends completed with
\* amount_out equal to the amount that was submitted
C17_OnePaymentOfNetAmount ==
  /\ [](\A d \in Deposits :
          db[d].status = "completed" /\ db[d].asset \notin MultisigAssets =>
            /\ Cardinality(DepositTxs(d)) = 1
            /\ \A tx \in Submissions(d) :
                 /\ tx.result = "ok"
                 /\ IsRounded(tx.envelope[1].amount, db[d].amount_in[1] - db[d].amount_fee[1],
                              Asset(db[d].asset).significant_decimals)
                 /\ db[d].amount_out = Some(tx.envelope[1].amount)
                 /\ (db[d].amount_in = Some(100000) /\ db[d].amount_fee = Some(1000)
                       /\ Asset(db[d].asset).significant_decimals = 2)
                      => tx.envelope[1].amount = 99000)
  /\ [][DirectStep =>
          /\ proc'["driver"].envelope[1].op = "payment"
          /\ proc'["driver"].envelope[1].destination = DestAccount
          /\ proc'["driver"].envelope[1].tx_of = Head(proc["driver"].queue).id]_vars

\* a deposit of 100 with a fee of 1 in an asset of 2 decimals that needs no
\* further signature is completed in the pass that found it ready, paid by one
\* payment of 99.00
C17_Witness ==
  \E d \in Deposits :
    /\ db[d].status = "completed" /\ db[d].asset \notin MultisigAssets
    /\ db[d].amount_in = Some(100000) /\ db[d].amount_fee = Some(1000)
    /\ statusLog[d] = <<"pending_anchor", "pending_stellar", "completed">>
    /\ \E tx \in Submissions(d) : tx.envelope[1].op = "payment" /\ tx.envelope[1].amount = 99000

----------------------------------------------------------------------------
\* C18: requires_multisig is true exactly when the distribution account has no
\* master signer or its master signer weighs strictly less than the medium
\* threshold, and false when the master signer weighs as much as the
\* threshold or more
C18_RequiresMultisigThreshold ==
  probe # None /\ probe[1].result # None =>
    LET signer == probe[1].asset.distribution_account_master_signer
        med == probe[1].asset.distribution_account_thresholds.med_threshold
        answer == probe[1].result[1]
    IN  /\ signer = None => answer
        /\ signer # None /\ signer[1].weight + 1 <= med => answer
        /\ signer # None /\ signer[1].weight >= med => ~ answer

\* requires_multisig has answered no for a master signer whose weight is
\* exactly the medium threshold
C18_Witness ==
  /\ probe # None /\ probe[1].result = Some(FALSE)
  /\ probe[1].asset.distribution_account_master_signer # None
  /\ probe[1].asset.distribution_account_master_signer[1].weight
       = probe[1].asset.distribution_account_thresholds.med_threshold

----------------------------------------------------------------------------
\* process p has built and signed a transaction and the ledger has not yet
\* answered its submission
InFlight(p) == proc[p].pc = "send"

\* the transactions the ledger receives in this step
Received(d) == {ledgerTxs'[d][i] : i \in DOMAIN ledgerTxs'[d] \ DOMAIN ledgerTxs[d]}

\* C19: two transactions of one source account are never unconfirmed at the
\* same time, the driver and the poller running side by side included: no two
\* transactions in flight have the same source account (nor, then, the same
\* sequence number of it), and the ledger receives no transaction of a source
\* account while another process has a transaction of that account in flight
C19_NoPipelining ==
  /\ [](\A p \in Procs, q \in Procs :
          p # q /\ InFlight(p) /\ InFlight(q) =>
            proc[p].envelope[1].source # proc[q].envelope[1].source)
  /\ [][\A p \in Procs, d \in Deposits :
          InFlight(p) /\ proc'[p] = proc[p] =>
            \A tx \in Received(d) : tx.source # proc[p].envelope[1].source]_vars

----------------------------------------------------------------------------
\* the create-account transactions the ledger receives for deposit d in this
\* step
Creations(d) == {tx \in Received(d) : tx.kind = "create_account"}

\* all the create-account transactions the ledger has received for deposit d
AllCreations(d) == {i \in DOMAIN ledgerTxs[d] : ledgerTxs[d][i].kind = "create_account"}

\* this step is the driver executing a deposit of an asset that needs no
\* further signature, finding that the destination account does not exist and
\* submitting its creation
CreationStep ==
  /\ ExecuteStep
  /\ Head(proc["driver"].queue).asset \notin MultisigAssets
  /\ ~ acct.exists
  /\ Creations(Head(proc["driver"].queue).id) # {}

\* C20: for a destination account that does not exist and an asset that needs
\* no further signature, one create-account transaction is submitted, with
\* the distribution account as source and only signer; when it succeeds the
\* deposit is parked as pending_trust if claimable balances are not supported
\* and is otherwise taken to submission in the same pass; when it fails it is
\* not submitted again and the deposit ends in error with a status message
C20_CreateAccountOnce ==
  /\ [][CreationStep =>
          LET t == Head(proc["driver"].queue)
              d == t.id
              distribution == Asset(t.asset).distribution_account
          IN  /\ Cardinality(Creations(d)) = 1
              /\ \A tx \in Creations(d) :
                   /\ tx.source = distribution /\ tx.signatures = {distribution}
                   /\ (tx.result = "ok" /\ ~ t.claimable_balance_supported /\ faults' = faults)
                        => db'[d].status = "pending_trust"
                   /\ (tx.result = "ok" /\ t.claimable_balance_supported /\ faults' = faults)
                        => proc'["driver"].pc = "send" /\ proc'["driver"].cur.id = d
                   /\ tx.result # "ok"
                        => db'[d].status = "error" /\ db'[d].status_message # None]_vars
  /\ [](\A d \in Deposits :
          db[d].asset \notin MultisigAssets => Cardinality(AllCreations(d)) <= 1)

----------------------------------------------------------------------------
\* deposit d is, after this step, in the answer of one of the three queries
\* by which a pass finds its deposits
SelectedNext(d) ==
  \/ db'[d].status \in ReadyStatuses
  \/ db'[d].status = "pending_anchor" /\ ~ db'[d].pending_signatures
       /\ db'[d].envelope_xdr # None
  \/ db'[d].status = "pending_trust"

\* C21: a deposit whose processing fails before it reaches pending_stellar
\* (the destination account cannot be resolved or created, the channel
\* account cannot be loaded) is left for the scheduler: a later pass selects
\* it and attempts it again
C21_FailedBeforeSubmitRetried ==
  [][\A p \in Procs :
       FailsOnDeposit(p) /\ proc[p].pc = "loop" =>
         LET d == Head(proc[p].queue).id
         IN  db'[d].status \notin {"pending_stellar", "completed"} /\ proc'[p].pc # "send"
               => SelectedNext(d)]_vars

----------------------------------------------------------------------------
\* the snapshot of the destination account the poller uses in this step has a
\* balance line, not the native one, with the code and the issuer of the
\* asset of t
SnapshotAccepts(t) ==
  \E line \in Snapshot.balances :
    /\ line.asset_type # "native"
    /\ line.asset_code = Asset(t.asset).code
    /\ line.asset_issuer = Asset(t.asset).issuer

\* C22: in a pass of the poller a pending_trust deposit changes only if the
\* account snapshot used for it has a non-native balance line of the
\* deposit's asset (code and issuer); it then goes to
\* save_as_pending_signatures when multisig is required and to submit
\* otherwise; a deposit whose asset is not among the balances keeps
\* pending_trust and every field
C22_PollerActsOnTrustline ==
  [][CheckStep =>
       LET t == Head(proc["poller"].queue)
           d == t.id
           clean == faults' = faults
           multisig == t.asset \in MultisigAssets
       IN  /\ db'[d] # db[d] => SnapshotAccepts(t) /\ proc'["poller"].caught = "none"
           /\ ~ SnapshotAccepts(t) =>
                /\ db'[d] = db[d] /\ db'[d].status = "pending_trust"
                /\ notified' = notified /\ ledgerTxs' = ledgerTxs
                /\ proc'["poller"].pc # "send"
           /\ (SnapshotAccepts(t) /\ clean /\ multisig) =>
                /\ db'[d].status = "pending_anchor" /\ db'[d].pending_signatures
                /\ db'[d].envelope_xdr # None
                /\ NotSubmitted("poller", d)
           /\ (SnapshotAccepts(t) /\ clean /\ ~ multisig) =>
                /\ proc'["poller"].pc = "send" /\ proc'["poller"].cur.id = d
                /\ db'[d].status = "pending_stellar"]_vars

\* the poller has handed one deposit to save_as_pending_signatures and has
\* left the other, whose asset the destination does not accept, in
\* pending_trust
C22_Witness ==
  \E d \in Deposits, e \in Deposits :
    /\ statusLog[d] = <<"pending_trust", "pending_anchor">> /\ db[d].pending_signatures
    /\ db[e].status = "pending_trust" /\ db[e].asset \notin acct.trust
    /\ statusLog[e] = <<"pending_trust">>

----------------------------------------------------------------------------
\* process p takes deposit d to the ledger call in this step
TakesToLedger(p, d) ==
  /\ proc[p].pc # "send"
  /\ proc'[p].pc = "send" /\ proc'[p].cur.id = d

\* C23: while a deposit is in pending_anchor with pending_signatures set, no
\* step of the driver or the poller submits it or changes any of its fields;
\* a deposit that has waited for signatures is taken to the ledger only by the
\* driver's re-scan, with pending_signatures cleared and an envelope stored
C23_UntouchedWhileAwaitingSignatures ==
  [][\A d \in Deposits :
       /\ (db[d].status = "pending_anchor" /\ db[d].pending_signatures /\ proc' # proc) =>
            /\ db'[d] = db[d]
            /\ ledgerTxs'[d] = ledgerTxs[d]
            /\ \A p \in Procs : ~ TakesToLedger(p, d)
       /\ \A p \in Procs :
            everPendingSig[d] /\ TakesToLedger(p, d) =>
              /\ p = "driver" /\ proc[p].phase = "multisig"
              /\ db[d].status = "pending_anchor" /\ ~ db[d].pending_signatures
              /\ db[d].envelope_xdr # None
              /\ CoSigner \in FromXdr(db[d].envelope_xdr[1]).signatures]_vars

\* the driver's re-scan has taken a co-signed deposit to the ledger call while
\* the other deposit still waits for its signatures
C23_Witness ==
  \E d \in Deposits, e \in Deposits :
    /\ proc["driver"].pc = "send" /\ proc["driver"].cur.id = d
    /\ proc["driver"].phase = "multisig" /\ everPendingSig[d]
    /\ db[e].status = "pending_anchor" /\ db[e].pending_signatures

----------------------------------------------------------------------------
\* the transactions of deposit d the ledger has applied successfully
Applications(d) == {tx \in Submissions(d) : tx.result = "ok"}

\* C24: after a successful submission the claimable-balance id of the deposit
\* is set only if claimable balances are supported for it and the result of
\* the submission has the result of a balance-creation operation; when there
\* is no such result the id stays unset and the deposit is completed all the
\* same, not in error
C24_BalanceIdOnlyFromCreation ==
  \A d \in Deposits :
    /\ db[d].claimable_balance_id # None =>
         /\ db[d].claimable_balance_supported
         /\ \E tx \in Applications(d) : tx.envelope[1].op = "create_claimable_balance"
    /\ \A tx \in Applications(d) :
         /\ db[d].status = "completed"
         /\ tx.envelope[1].op # "create_claimable_balance" => db[d].claimable_balance_id = None
         /\ (tx.envelope[1].op = "create_claimable_balance" /\ db[d].claimable_balance_supported)
              => db[d].claimable_balance_id = Some(Hex(<<"balance", d>>))

\* one deposit that supports claimable balances was paid by a direct payment
\* and is completed without a balance id, the other was paid into a claimable
\* balance and has its id
C24_Witness ==
  \E d \in Deposits, e \in Deposits :
    /\ db[d].status = "completed" /\ db[d].claimable_balance_supported
    /\ db[d].claimable_balance_id = None
    /\ db[e].status = "completed" /\ db[e].claimable_balance_id # None

----------------------------------------------------------------------------
\* the destination account as read has a balance line of the asset of t
Accepts(json_resp, t) ==
  \E line \in json_resp.balances :
    /\ line.asset_type # "native"
    /\ line.asset_code = Asset(t.asset).code
    /\ line.asset_issuer = Asset(t.asset).issuer

\* C25: the operation of the envelope create_deposit_envelope builds is a
\* create-claimable-balance with the destination as only claimant exactly when
\* claimable balances are supported for the deposit and the destination does
\* not accept the asset when the envelope is built, and a payment to the
\* destination otherwise; its source is the distribution account of the asset
\* in both cases, also when the source of the envelope is a channel account
C25_OperationOfEnvelope ==
  probe # None /\ probe[1].result # None =>
    LET t == probe[1].t
        envelope == probe[1].result[1]
        claimable == t.claimable_balance_supported /\ ~ Accepts(probe[1].json_resp, t)
    IN  /\ envelope.op = "create_claimable_balance" <=> claimable
        /\ envelope.op = "payment" <=> ~ claimable
        /\ envelope.op = "create_claimable_balance" => envelope.claimants = {DestAccount}
        /\ envelope.op = "payment" => envelope.destination = DestAccount
        /\ envelope.op_source = Asset(t.asset).distribution_account
        /\ envelope.source = probe[1].source_account.account_id
        /\ envelope.asset = t.asset

\* an envelope whose source is a channel account carries a
\* create-claimable-balance operation whose source is the distribution account
C25_Witness ==
  /\ probe # None /\ probe[1].result # None
  /\ probe[1].result[1].op = "create_claimable_balance"
  /\ probe[1].result[1].source = ChannelOf(probe[1].t.id)
  /\ probe[1].result[1].op_source = Asset(probe[1].t.asset).distribution_account
  /\ probe[1].json_resp.balances # {NativeLine}

----------------------------------------------------------------------------
\* C26: a channel account is provisioned at most once for a deposit, whatever
\* calls of the resolver and of save_as_pending_signatures are made for it:
\* create_channel_account is called only while the deposit has no channel
\* account, and every later call works with the channel address and secret
\* that were stored
C26_ChannelProvisionedOnce ==
  /\ [](\A d \in Deposits :
          /\ channels[d] <= 1
          /\ channels[d] = 1 <=> db[d].channel_account # None
          /\ db[d].channel_account # None =>
               /\ db[d].channel_account = Some(ChannelOf(d))
               /\ db[d].channel_seed # None
               /\ db[d].envelope_xdr # None /\ db[d].status = "pending_anchor"
                    => FromXdr(db[d].envelope_xdr[1]).source = ChannelOf(d))
  /\ [][\A d \in Deposits :
          /\ channels'[d] # channels[d] =>
               /\ db[d].channel_account = None
               /\ channels'[d] = channels[d] + 1
          /\ db[d].channel_account # None =>
               /\ db'[d].channel_account = db[d].channel_account
               /\ db'[d].channel_seed = db[d].channel_seed]_vars

\* the resolver provisioned the channel account of a deposit whose destination
\* did not exist, and save_as_pending_signatures built the envelope on that
\* same channel account
C26_Witness ==
  \E d \in Deposits :
    /\ channels[d] = 1 /\ db[d].pending_signatures
    /\ \E i \in DOMAIN ledgerTxs[d] :
         ledgerTxs[d][i].kind = "create_account" /\ ledgerTxs[d][i].source = ChannelOf(d)
    /\ FromXdr(db[d].envelope_xdr[1]).source = ChannelOf(d)

----------------------------------------------------------------------------
\* C27: in every state the driver and the poller can reach, a deposit with
\* pending_signatures set is in pending_anchor and has a stored envelope and a
\* channel account, and a deposit in pending_trust has no stored envelope; so
\* the submit the poller makes for a deposit builds its envelope afresh, from
\* the distribution account as it then is
C27_RowsWellFormed ==
  /\ [](\A d \in Deposits :
          /\ db[d].pending_signatures =>
               /\ db[d].status = "pending_anchor"
               /\ db[d].envelope_xdr # None
               /\ db[d].channel_account # None
          /\ db[d].status = "pending_trust" => db[d].envelope_xdr = None)
  /\ [][\A d \in Deposits :
          TakesToLedger("poller", d) =>
            LET envelope == proc'["poller"].envelope[1]
                distribution == Asset(db[d].asset).distribution_account
            IN  /\ db[d].envelope_xdr = None
                /\ envelope.tx_of = d
                /\ envelope.source = distribution
                /\ envelope.sequence = acct.seq[distribution] + 1
                /\ envelope.signatures = {distribution}]_vars

\* one deposit waits for signatures with its envelope and channel account
\* stored while the poller has taken the other, without stored envelope
\* before, to the ledger call
C27_Witness ==
  \E d \in Deposits, e \in Deposits :
    /\ db[d].pending_signatures /\ db[d].envelope_xdr # None
    /\ proc["poller"].pc = "send" /\ proc["poller"].cur.id = e
    /\ statusLog[e] = <<"pending_trust", "pending_anchor", "pending_stellar">>

====
